---------------------------- MODULE Spec2Model ----------------------------
(***************************************************************************)
(* Lead-ingestion pipeline of the Educadd backend (src/server.js).         *)
(*                                                                         *)
(* A JavaScript string is the sequence of its UTF-16 code units.  A code   *)
(* unit is written as the one-character string of an ASCII character, or   *)
(* as the six-character name "U+XXXX" of any other code unit ("U+2014" is  *)
(* the em dash, "U+000B" the vertical tab), so that trim, toLowerCase,     *)
(* split and the regular expressions of the source are computed code unit  *)
(* by code unit.  A request body is a function from a subset of the field  *)
(* names to such strings; a field that is absent from the body is absent   *)
(* from the function's domain (undefined in the code).  Field values are   *)
(* strings: the model does not submit numbers, arrays or objects as field  *)
(* values.                                                                 *)
(***************************************************************************)
EXTENDS Integers, Sequences, FiniteSets, TLC

(***************************************************************************)
(* Bounds of the model.                                                    *)
(***************************************************************************)
MaxPosts == 2
MaxGets == 1
MaxClock == 1

PostIds == 1..MaxPosts
GetIds == 1..MaxGets

(***************************************************************************)
(* Characters and the string primitives the handlers use.                  *)
(***************************************************************************)
DigitChars == {"0", "1", "2", "3", "4", "5", "6", "7", "8", "9"}

\* the \s class of the regular expressions and the code units trim() strips:
\* WhiteSpace and LineTerminator of ECMAScript
WhitespaceChars ==
    { " ", "\t", "\n", "\r", "\f", "U+000B", "U+00A0", "U+1680",
      "U+2000", "U+2001", "U+2002", "U+2003", "U+2004", "U+2005",
      "U+2006", "U+2007", "U+2008", "U+2009", "U+200A",
      "U+2028", "U+2029", "U+202F", "U+205F", "U+3000", "U+FEFF" }

UpperChars == <<"A", "B", "C", "D", "E", "F", "G", "H", "I", "J", "K", "L", "M",
                "N", "O", "P", "Q", "R", "S", "T", "U", "V", "W", "X", "Y", "Z">>

LowerChars == <<"a", "b", "c", "d", "e", "f", "g", "h", "i", "j", "k", "l", "m",
                "n", "o", "p", "q", "r", "s", "t", "u", "v", "w", "x", "y", "z">>

\* the capital letters of Latin-1 and, position by position, their small
\* letters
Latin1UpperChars == <<"U+00C0", "U+00C1", "U+00C2", "U+00C3", "U+00C4",
                     "U+00C5", "U+00C6", "U+00C7", "U+00C8", "U+00C9",
                     "U+00CA", "U+00CB", "U+00CC", "U+00CD", "U+00CE",
                     "U+00CF", "U+00D0", "U+00D1", "U+00D2", "U+00D3",
                     "U+00D4", "U+00D5", "U+00D6", "U+00D8", "U+00D9",
                     "U+00DA", "U+00DB", "U+00DC", "U+00DD", "U+00DE">>

Latin1LowerChars == <<"U+00E0", "U+00E1", "U+00E2", "U+00E3", "U+00E4",
                     "U+00E5", "U+00E6", "U+00E7", "U+00E8", "U+00E9",
                     "U+00EA", "U+00EB", "U+00EC", "U+00ED", "U+00EE",
                     "U+00EF", "U+00F0", "U+00F1", "U+00F2", "U+00F3",
                     "U+00F4", "U+00F5", "U+00F6", "U+00F8", "U+00F9",
                     "U+00FA", "U+00FB", "U+00FC", "U+00FD", "U+00FE">>

PunctuationChars ==
    { "!", "\"", "#", "$", "%", "&", "'", "(", ")", "*", "+", ",", "-", ".",
      "/", ":", ";", "<", "=", ">", "?", "@", "[", "\\", "]", "^", "_",
      "{", "|", "}", "~" }

\* code units of the model's alphabet that toLowerCase leaves as they are:
\* small letters, digits, punctuation, white space, the multiplication and
\* division signs, sharp s, y with diaeresis, the combining dot above and
\* the em dash
UncasedChars ==
    {LowerChars[i] : i \in 1..Len(LowerChars)}
        \cup {Latin1LowerChars[i] : i \in 1..Len(Latin1LowerChars)}
        \cup DigitChars \cup PunctuationChars \cup WhitespaceChars
        \cup {"U+00D7", "U+00DF", "U+00F7", "U+00FF", "U+0307", "U+2014"}

\* the alphabet of the model: ASCII without the grave accent and without the
\* control characters that are not white space, the white space of ECMAScript, the letters of Latin-1,
\* the capital I with dot above, the combining dot above and the em dash
Chars ==
    UncasedChars
        \cup {UpperChars[i] : i \in 1..Len(UpperChars)}
        \cup {Latin1UpperChars[i] : i \in 1..Len(Latin1UpperChars)}
        \cup {"U+0130"}

\* c.toLowerCase() for one code unit c of the alphabet: the code units of
\* the result (the capital I with dot above becomes two code units)
LowerChar(c) ==
    CASE \E i \in 1..Len(UpperChars) : UpperChars[i] = c ->
             <<LowerChars[CHOOSE i \in 1..Len(UpperChars) : UpperChars[i] = c]>>
      [] \E i \in 1..Len(Latin1UpperChars) : Latin1UpperChars[i] = c ->
             <<Latin1LowerChars[CHOOSE i \in 1..Len(Latin1UpperChars) :
                                   Latin1UpperChars[i] = c]>>
      [] c = "U+0130" -> <<"i", "U+0307">>
      [] c \in UncasedChars -> <<c>>

\* String.prototype.toLowerCase
RECURSIVE ToLowerCase(_)
ToLowerCase(s) ==
    IF s = <<>> THEN <<>>
    ELSE LowerChar(Head(s)) \o ToLowerCase(Tail(s))

\* String.prototype.trim
Trim(s) ==
    LET keep == {i \in 1..Len(s) : s[i] \notin WhitespaceChars}
    IN  IF keep = {} THEN <<>>
        ELSE LET lo == CHOOSE i \in keep : \A j \in keep : i <= j
                 hi == CHOOSE i \in keep : \A j \in keep : j <= i
             IN  SubSeq(s, lo, hi)

\* phoneRaw.replace(/\D/g, "")
RECURSIVE StripNonDigits(_)
StripNonDigits(s) ==
    IF s = <<>> THEN <<>>
    ELSE IF Head(s) \in DigitChars
         THEN <<Head(s)>> \o StripNonDigits(Tail(s))
         ELSE StripNonDigits(Tail(s))

\* s.split("@"): the pieces of s between the occurrences of sep
RECURSIVE Split(_, _)
Split(s, sep) ==
    IF \A i \in 1..Len(s) : s[i] # sep THEN <<s>>
    ELSE LET p == CHOOSE i \in 1..Len(s) :
                      s[i] = sep /\ \A j \in 1..(i - 1) : s[j] # sep
         IN  <<SubSeq(s, 1, p - 1)>> \o Split(SubSeq(s, p + 1, Len(s)), sep)

\* s.startsWith(prefix)
StartsWith(s, prefix) ==
    Len(s) >= Len(prefix) /\ SubSeq(s, 1, Len(prefix)) = prefix

(***************************************************************************)
(* Request bodies.                                                         *)
(***************************************************************************)
\* !body[f] is false: the field is present and not the empty string
Truthy(body, f) == f \in DOMAIN body /\ body[f] # <<>>

\* body[f] || ""
OrEmpty(body, f) == IF Truthy(body, f) THEN body[f] ELSE <<>>

(***************************************************************************)
(* Validator.                                                              *)
(***************************************************************************)
DISPOSABLE_DOMAINS ==
    { <<"m", "a", "i", "l", "i", "n", "a", "t", "o", "r", ".", "c", "o", "m">>,
      <<"y", "o", "p", "m", "a", "i", "l", ".", "c", "o", "m">>,
      <<"1", "0", "m", "i", "n", "u", "t", "e", "m", "a", "i", "l", ".", "c", "o", "m">>,
      <<"m", "a", "i", "l", "d", "r", "o", "p", ".", "c", "c">>,
      <<"t", "e", "m", "p", "m", "a", "i", "l", ".", "c", "o", "m">>,
      <<"g", "u", "e", "r", "r", "i", "l", "l", "a", "m", "a", "i", "l", ".", "c", "o", "m">> }

\* /^[^\s@]+@[^\s@]+\.[^\s@]+$/.test(email)
EmailShape(email) ==
    \E i, j \in 1..Len(email) :
        /\ email[i] = "@"
        /\ email[j] = "."
        /\ 1 < i
        /\ i + 1 < j
        /\ j < Len(email)
        /\ \A k \in 1..Len(email) :
               k # i => email[k] \notin (WhitespaceChars \cup {"@"})

isDisposableEmail(email) ==
    LET parts == Split(email, "@")
    IN  /\ Len(parts) >= 2
        /\ parts[2] # <<>>
        /\ ToLowerCase(parts[2]) \in DISPOSABLE_DOMAINS

\* /^(\d)\1{9}$/.test(phone)
isAllSameDigits(phone) ==
    /\ Len(phone) = 10
    /\ phone[1] \in DigitChars
    /\ \A i \in 1..Len(phone) : phone[i] = phone[1]

\* variant: the list also holds the descending run 9876543210
isSequential_withDescending(phone) ==
    phone \in { <<"0", "1", "2", "3", "4", "5", "6", "7", "8", "9">>,
                <<"1", "2", "3", "4", "5", "6", "7", "8", "9", "0">>,
                <<"0", "9", "8", "7", "6", "5", "4", "3", "2", "1">>,
                <<"9", "8", "7", "6", "5", "4", "3", "2", "1", "0">> }

isSequential(phone) ==
    phone \in { <<"0", "1", "2", "3", "4", "5", "6", "7", "8", "9">>,
                <<"1", "2", "3", "4", "5", "6", "7", "8", "9", "0">>,
                <<"0", "9", "8", "7", "6", "5", "4", "3", "2", "1">> }

\* the message texts of the responses
\* "Please enter your 10-digit phone number without country code (+91 or 91 at the start)."
MsgCountryCode ==
    <<"P", "l", "e", "a", "s", "e", " ", "e", "n", "t", "e", "r", " ", "y",
      "o", "u", "r", " ", "1", "0", "-", "d", "i", "g", "i", "t", " ", "p",
      "h", "o", "n", "e", " ", "n", "u", "m", "b", "e", "r", " ", "w", "i",
      "t", "h", "o", "u", "t", " ", "c", "o", "u", "n", "t", "r", "y", " ",
      "c", "o", "d", "e", " ", "(", "+", "9", "1", " ", "o", "r", " ", "9",
      "1", " ", "a", "t", " ", "t", "h", "e", " ", "s", "t", "a", "r", "t",
      ")", ".">>

\* "Phone number must be 10 digits (India)."
MsgTenDigits ==
    <<"P", "h", "o", "n", "e", " ", "n", "u", "m", "b", "e", "r", " ", "m",
      "u", "s", "t", " ", "b", "e", " ", "1", "0", " ", "d", "i", "g", "i",
      "t", "s", " ", "(", "I", "n", "d", "i", "a", ")", ".">>

\* "Invalid phone number format."
MsgPhoneFormat ==
    <<"I", "n", "v", "a", "l", "i", "d", " ", "p", "h", "o", "n", "e", " ",
      "n", "u", "m", "b", "e", "r", " ", "f", "o", "r", "m", "a", "t", ".">>

\* "Please provide a valid mobile number (not placeholders or sequential digits)."
MsgPlaceholder ==
    <<"P", "l", "e", "a", "s", "e", " ", "p", "r", "o", "v", "i", "d", "e",
      " ", "a", " ", "v", "a", "l", "i", "d", " ", "m", "o", "b", "i", "l",
      "e", " ", "n", "u", "m", "b", "e", "r", " ", "(", "n", "o", "t", " ",
      "p", "l", "a", "c", "e", "h", "o", "l", "d", "e", "r", "s", " ", "o",
      "r", " ", "s", "e", "q", "u", "e", "n", "t", "i", "a", "l", " ", "d",
      "i", "g", "i", "t", "s", ")", ".">>

\* "Name, email and phone are required."
MsgRequired ==
    <<"N", "a", "m", "e", ",", " ", "e", "m", "a", "i", "l", " ", "a", "n",
      "d", " ", "p", "h", "o", "n", "e", " ", "a", "r", "e", " ", "r", "e",
      "q", "u", "i", "r", "e", "d", ".">>

\* "Invalid email format."
MsgEmailFormat ==
    <<"I", "n", "v", "a", "l", "i", "d", " ", "e", "m", "a", "i", "l", " ",
      "f", "o", "r", "m", "a", "t", ".">>

\* "Please use a permanent email address (no temporary/disposable addresses)."
MsgDisposable ==
    <<"P", "l", "e", "a", "s", "e", " ", "u", "s", "e", " ", "a", " ", "p",
      "e", "r", "m", "a", "n", "e", "n", "t", " ", "e", "m", "a", "i", "l",
      " ", "a", "d", "d", "r", "e", "s", "s", " ", "(", "n", "o", " ", "t",
      "e", "m", "p", "o", "r", "a", "r", "y", "/", "d", "i", "s", "p", "o",
      "s", "a", "b", "l", "e", " ", "a", "d", "d", "r", "e", "s", "s", "e",
      "s", ")", ".">>

\* "Your inquiry has already been received (em dash) we will contact you soon."
MsgDuplicate ==
    <<"Y", "o", "u", "r", " ", "i", "n", "q", "u", "i", "r", "y", " ", "h",
      "a", "s", " ", "a", "l", "r", "e", "a", "d", "y", " ", "b", "e", "e",
      "n", " ", "r", "e", "c", "e", "i", "v", "e", "d", " ", "U+2014", " ",
      "w", "e", " ", "w", "i", "l", "l", " ", "c", "o", "n", "t", "a", "c",
      "t", " ", "y", "o", "u", " ", "s", "o", "o", "n", ".">>

\* "Thanks! Your inquiry has been received (em dash) we will contact you soon."
MsgThanks ==
    <<"T", "h", "a", "n", "k", "s", "!", " ", "Y", "o", "u", "r", " ", "i",
      "n", "q", "u", "i", "r", "y", " ", "h", "a", "s", " ", "b", "e", "e",
      "n", " ", "r", "e", "c", "e", "i", "v", "e", "d", " ", "U+2014", " ",
      "w", "e", " ", "w", "i", "l", "l", " ", "c", "o", "n", "t", "a", "c",
      "t", " ", "y", "o", "u", " ", "s", "o", "o", "n", ".">>

\* "Server error inserting lead."
MsgInsertError ==
    <<"S", "e", "r", "v", "e", "r", " ", "e", "r", "r", "o", "r", " ", "i",
      "n", "s", "e", "r", "t", "i", "n", "g", " ", "l", "e", "a", "d", ".">>

\* "Server error fetching leads."
MsgFetchError ==
    <<"S", "e", "r", "v", "e", "r", " ", "e", "r", "r", "o", "r", " ", "f",
      "e", "t", "c", "h", "i", "n", "g", " ", "l", "e", "a", "d", "s", ".">>

\* variant: a leading 91 is stripped from twelve digits and the remaining ten
\* are checked
validatePhoneRaw_stripsCountryCode(phoneRaw) ==
    LET all == StripNonDigits(phoneRaw)
        digits == IF Len(all) = 12 /\ StartsWith(all, <<"9", "1">>)
                  THEN SubSeq(all, 3, 12) ELSE all
    IN  IF Len(digits) # 10
        THEN [ok |-> FALSE, message |-> MsgTenDigits, phone |-> <<>>]
        ELSE IF isAllSameDigits(digits) \/ isSequential(digits)
        THEN [ok |-> FALSE, message |-> MsgPlaceholder, phone |-> <<>>]
        ELSE [ok |-> TRUE, message |-> <<>>, phone |-> digits]

\* validatePhoneRaw(phoneRaw): {ok, message} or {ok, phone}
validatePhoneRaw(phoneRaw) ==
    LET digits == StripNonDigits(phoneRaw)
    IN  IF Len(digits) = 12 /\ StartsWith(digits, <<"9", "1">>)
        THEN [ok |-> FALSE, message |-> MsgCountryCode, phone |-> <<>>]
        ELSE IF Len(digits) # 10
        THEN [ok |-> FALSE, message |-> MsgTenDigits, phone |-> <<>>]
        ELSE IF ~(Len(digits) = 10 /\ \A i \in 1..Len(digits) : digits[i] \in DigitChars)
        THEN [ok |-> FALSE, message |-> MsgPhoneFormat, phone |-> <<>>]
        ELSE IF isAllSameDigits(digits) \/ isSequential(digits)
        THEN [ok |-> FALSE, message |-> MsgPlaceholder, phone |-> <<>>]
        ELSE [ok |-> TRUE, message |-> <<>>, phone |-> digits]

\* variant: the disposable-domain check is left out
Validate_noDisposableCheck(body) ==
    IF ~Truthy(body, "name") \/ ~Truthy(body, "email") \/ ~Truthy(body, "phone")
    THEN [ok |-> FALSE, message |-> MsgRequired, phone |-> <<>>]
    ELSE IF ~EmailShape(body["email"])
    THEN [ok |-> FALSE, message |-> MsgEmailFormat, phone |-> <<>>]
    ELSE validatePhoneRaw(body["phone"])

\* the validation prefix of the POST /leads handler: the first check that
\* fails decides the 400 message
Validate(body) ==
    IF ~Truthy(body, "name") \/ ~Truthy(body, "email") \/ ~Truthy(body, "phone")
    THEN [ok |-> FALSE, message |-> MsgRequired, phone |-> <<>>]
    ELSE IF ~EmailShape(body["email"])
    THEN [ok |-> FALSE, message |-> MsgEmailFormat, phone |-> <<>>]
    ELSE IF isDisposableEmail(body["email"])
    THEN [ok |-> FALSE, message |-> MsgDisposable, phone |-> <<>>]
    ELSE validatePhoneRaw(body["phone"])

(***************************************************************************)
(* The request bodies the model submits.                                   *)
(***************************************************************************)
NameA == <<"A">>
NameB == <<"B">>
NamePadded == <<"\r", " ", "A", "U+00A0">>
NameBlank == <<" ">>
EmailAX == <<"a", "@", "x", ".", "c", "o">>
EmailAXMixed == <<"A", "@", "X", ".", "C", "o">>
EmailBX == <<"b", "@", "x", ".", "c", "o">>
EmailNoAt == <<"a", "x", ".", "c", "o">>
EmailLeadingSpace == <<" ", "a", "@", "x", ".", "c", "o">>
EmailCarriageReturn == <<"a", "\r", "@", "x", ".", "c", "o">>
EmailEAcuteUpper == <<"U+00C9", "@", "x", ".", "c", "o">>
EmailEAcute == <<"U+00E9", "@", "x", ".", "c", "o">>
EmailYopmail == <<"a", "@", "Y", "o", "p", "M", "a", "i", "l", ".", "c", "o", "m">>
Phone1 == <<"9", "8", "7", "6", "5", "4", "3", "2", "1", "0">>
Phone1Dashed == <<"9", "8", "7", "6", "5", "-", "4", "3", "2", "1", "0">>
Phone2 == <<"9", "8", "7", "6", "5", "4", "3", "2", "1", "1">>
Phone91 == <<"9", "1", "9", "8", "7", "6", "5", "4", "3", "2", "1", "0">>
PhoneShort == <<"1", "2", "3", "4", "5">>
PhoneAllSame == <<"5", "5", "5", "5", "5", "5", "5", "5", "5", "5">>
PhoneSequential == <<"1", "2", "3", "4", "5", "6", "7", "8", "9", "0">>
CourseC == <<"c">>
AddressD == <<"d">>

ValidBodies ==
    { [name |-> NameA, email |-> EmailAX, phone |-> Phone1],
      [name |-> NameB, email |-> EmailAXMixed, phone |-> Phone1Dashed,
       course |-> CourseC, address |-> AddressD],
      [name |-> NameA, email |-> EmailAX, phone |-> Phone2],
      [name |-> NamePadded, email |-> EmailBX, phone |-> Phone1],
      [name |-> NameBlank, email |-> EmailBX, phone |-> Phone2],
      [name |-> NameA, email |-> EmailEAcuteUpper, phone |-> Phone1],
      [name |-> NameB, email |-> EmailEAcute, phone |-> Phone1] }

InvalidBodies ==
    { [email |-> EmailAX, phone |-> Phone1],
      [name |-> NameA, email |-> <<>>, phone |-> Phone1],
      [name |-> NameA, email |-> EmailAX],
      [name |-> NameA, email |-> EmailNoAt, phone |-> Phone1],
      [name |-> NameA, email |-> EmailLeadingSpace, phone |-> Phone1],
      [name |-> NameA, email |-> EmailCarriageReturn, phone |-> Phone1],
      [name |-> NameA, email |-> EmailYopmail, phone |-> Phone1],
      [name |-> NameA, email |-> EmailAX, phone |-> Phone91],
      [name |-> NameA, email |-> EmailAX, phone |-> PhoneShort],
      [name |-> NameA, email |-> EmailAX, phone |-> PhoneAllSame],
      [name |-> NameA, email |-> EmailAX, phone |-> PhoneSequential] }

Bodies == ValidBodies \cup InvalidBodies

(***************************************************************************)
(* State.                                                                  *)
(*   pool         TRUE when DATABASE_URL is configured and initDb created  *)
(*                the Pool (backed mode), FALSE when pool stays null       *)
(*   initDbState  where the initDb() promise stands                        *)
(*   initDbResult the database's answer to the CREATE TABLE query of       *)
(*                initDb(), as long as the process has not taken it up     *)
(*   tableExists  whether the leads table exists in the database           *)
(*   leadsTable   the rows of the leads table                              *)
(*   clock        the current instant in milliseconds                      *)
(*   nextUuid     the next value uuid() returns                            *)
(*   post, get    the POST /leads and GET /leads requests                  *)
(*   emailCalls   the leads sendLeadEmail was called with, in call order   *)
(*   channel      how the notification channel answers a send              *)
(***************************************************************************)
VARIABLES pool, initDbState, initDbResult, tableExists, leadsTable, clock, nextUuid,
          post, get, emailCalls, channel

vars == <<pool, initDbState, initDbResult, tableExists, leadsTable, clock, nextUuid,
          post, get, emailCalls, channel>>

SourceWebsite == <<"w", "e", "b", "s", "i", "t", "e">>

NoParams == [id |-> 0, name |-> <<>>, email |-> <<>>, phone |-> <<>>,
             address |-> <<>>, course |-> <<>>, source |-> <<>>]

NoRow == [id |-> 0, name |-> <<>>, email |-> <<>>, phone |-> <<>>,
          address |-> <<>>, course |-> <<>>, source |-> <<>>, created_at_utc |-> 0]

NoLead == [id |-> 0, name |-> <<>>, email |-> <<>>, phone |-> <<>>,
           address |-> <<>>, course |-> <<>>, source |-> <<>>,
           createdAt |-> 0, createdAtUTC |-> <<0, 0>>]

IdlePost == [pc |-> "idle", body |-> [name |-> <<>>], params |-> NoParams,
             result |-> "none", row |-> NoRow,
             status |-> 0, message |-> <<>>, lead |-> NoLead]

IdleGet == [pc |-> "idle", known |-> {}, result |-> "none", rows |-> <<>>,
            status |-> 0, message |-> <<>>, out |-> <<>>]

\* Date.prototype.toISOString: the instant rendered as its seconds and its
\* milliseconds within the second
ToISOString(d) == <<d \div 1000, d % 1000>>

\* toLocaleString("en-IN", {timeZone: "Asia/Kolkata"}): the wall-clock second
\* at UTC+05:30
ToLocaleStringIST(d) == (d + 19800000) \div 1000

\* the lead object built from a row of the table
LeadOfRow(row) ==
    [id |-> row.id, name |-> row.name, email |-> row.email, phone |-> row.phone,
     address |-> row.address, course |-> row.course, source |-> row.source,
     createdAt |-> ToLocaleStringIST(row.created_at_utc),
     createdAtUTC |-> ToISOString(row.created_at_utc)]

\* the values bound to $1..$7 of the INSERT
InsertParams(id, body, cleanedPhone) ==
    [id |-> id,
     name |-> Trim(body["name"]),
     email |-> ToLowerCase(Trim(body["email"])),
     phone |-> cleanedPhone,
     address |-> OrEmpty(body, "address"),
     course |-> OrEmpty(body, "course"),
     source |-> SourceWebsite]

\* the lead object of the in-memory branch
FallbackLead(id, body, cleanedPhone, now) ==
    [id |-> id,
     name |-> Trim(body["name"]),
     email |-> ToLowerCase(Trim(body["email"])),
     phone |-> cleanedPhone,
     address |-> OrEmpty(body, "address"),
     course |-> OrEmpty(body, "course"),
     source |-> SourceWebsite,
     createdAt |-> ToLocaleStringIST(now),
     createdAtUTC |-> ToISOString(now)]

\* variant: the constraint is declared on (email, phone, name)
UniqueViolation_withName(rows, params) ==
    \E row \in rows :
        row.email = params.email /\ row.phone = params.phone /\ row.name = params.name

\* variant: the constraint is declared on (email) alone
UniqueViolation_emailOnly(rows, params) ==
    \E row \in rows : row.email = params.email

\* CONSTRAINT leads_email_phone_unique UNIQUE (email, phone), and the
\* primary key on id: the rows an INSERT of params collides with
UniqueViolation(rows, params) ==
    \E row \in rows : row.email = params.email /\ row.phone = params.phone

PrimaryKeyViolation(rows, params) == \E row \in rows : row.id = params.id

\* the row the INSERT stores: created_at_utc DEFAULT NOW()
RowOfParams(params, now) ==
    [id |-> params.id, name |-> params.name, email |-> params.email,
     phone |-> params.phone, address |-> params.address,
     course |-> params.course, source |-> params.source,
     created_at_utc |-> now]

\* variant: the SELECT has no ORDER BY
SelectOrderings_unordered(rows) ==
    {seq \in [1..Cardinality(rows) -> rows] :
        \A i, j \in 1..Cardinality(rows) : i # j => seq[i] # seq[j]}

\* ORDER BY created_at_utc DESC: the orderings of the rows the SELECT may return
SelectOrderings(rows) ==
    {seq \in [1..Cardinality(rows) -> rows] :
        /\ \A i, j \in 1..Cardinality(rows) : i # j => seq[i] # seq[j]
        /\ \A i, j \in 1..Cardinality(rows) :
               i < j => seq[i].created_at_utc >= seq[j].created_at_utc}

\* the leads answered 201 so far
Answered201 == {post[r].lead : r \in {q \in PostIds : post[q].status = 201}}

\* the process right after module initialisation: initDb() has run up to its
\* first await, pool is set or stays null for good, the CREATE TABLE query is
\* on its way when pool is set, no request was received; the leads table is
\* missing (a fresh database) or exists, empty, from an earlier run
Init ==
    /\ pool \in BOOLEAN
    /\ initDbState = IF pool THEN "awaiting" ELSE "returned"
    /\ initDbResult = "none"
    /\ tableExists \in (IF pool THEN BOOLEAN ELSE {FALSE})
    /\ leadsTable = {}
    /\ clock = 0
    /\ nextUuid = 1
    /\ post = [r \in PostIds |-> IdlePost]
    /\ get = [g \in GetIds |-> IdleGet]
    /\ emailCalls = <<>>
    /\ channel \in {"delivers", "fails", "hangs"}

(***************************************************************************)
(* initDb(): the database runs the CREATE TABLE IF NOT EXISTS query, then  *)
(* the process takes up its answer after the await.                        *)
(***************************************************************************)
\* the database runs the query: the leads table exists from here on
DbCreateTable ==
    /\ initDbState = "awaiting"
    /\ initDbResult = "none"
    /\ initDbResult' = "ok"
    /\ tableExists' = TRUE
    /\ UNCHANGED <<pool, initDbState, leadsTable, clock, nextUuid, post, get,
                   emailCalls, channel>>

\* the query fails (the database is unreachable or refuses it)
DbCreateTableError ==
    /\ initDbState = "awaiting"
    /\ initDbResult = "none"
    /\ initDbResult' = "error"
    /\ UNCHANGED <<pool, initDbState, tableExists, leadsTable, clock, nextUuid,
                   post, get, emailCalls, channel>>

\* the await returns, initDb() resolves and the then-callback logs
InitDbResolve ==
    /\ initDbState = "awaiting"
    /\ initDbResult = "ok"
    /\ initDbState' = "connected"
    /\ initDbResult' = "none"
    /\ UNCHANGED <<pool, tableExists, leadsTable, clock, nextUuid, post, get,
                   emailCalls, channel>>

\* variant: the catch of initDb() resets pool to null
InitDbReject_dropsPool ==
    /\ initDbState = "awaiting"
    /\ initDbResult = "error"
    /\ initDbState' = "failed"
    /\ initDbResult' = "none"
    /\ pool' = FALSE
    /\ UNCHANGED <<tableExists, leadsTable, clock, nextUuid, post, get,
                   emailCalls, channel>>

\* the await throws, initDb() rejects and the catch-callback logs
InitDbReject ==
    /\ initDbState = "awaiting"
    /\ initDbResult = "error"
    /\ initDbState' = "failed"
    /\ initDbResult' = "none"
    /\ UNCHANGED <<pool, tableExists, leadsTable, clock, nextUuid, post, get,
                   emailCalls, channel>>

Tick ==
    /\ clock < MaxClock
    /\ clock' = clock + 1
    /\ UNCHANGED <<pool, initDbState, initDbResult, tableExists, leadsTable, nextUuid, post, get,
                   emailCalls, channel>>

(***************************************************************************)
(* POST /leads.                                                            *)
(***************************************************************************)
\* variant: the in-memory branch refuses a pair it has answered 201 before
PostLeadsFrom_fallbackDedup(r, bodies) ==
    /\ post[r].pc = "idle"
    /\ r > 1 => post[r - 1].pc # "idle"
    /\ \E body \in bodies :
         LET check == Validate(body)
             lead == FallbackLead(nextUuid, body, check.phone, clock)
         IN  IF ~check.ok
             THEN /\ post' = [post EXCEPT ![r] =
                        [@ EXCEPT !.pc = "done", !.body = body,
                                  !.status = 400, !.message = check.message]]
                  /\ UNCHANGED nextUuid
             ELSE IF pool
             THEN /\ post' = [post EXCEPT ![r] =
                        [@ EXCEPT !.pc = "querying", !.body = body,
                                  !.params = InsertParams(nextUuid, body, check.phone)]]
                  /\ nextUuid' = nextUuid + 1
             ELSE IF \E known \in Answered201 :
                        known.email = lead.email /\ known.phone = lead.phone
             THEN /\ post' = [post EXCEPT ![r] =
                        [@ EXCEPT !.pc = "done", !.body = body,
                                  !.status = 409, !.message = MsgDuplicate]]
                  /\ UNCHANGED nextUuid
             ELSE /\ post' = [post EXCEPT ![r] =
                        [@ EXCEPT !.pc = "done", !.body = body,
                                  !.status = 201, !.message = MsgThanks,
                                  !.lead = lead]]
                  /\ nextUuid' = nextUuid + 1
    /\ UNCHANGED <<pool, initDbState, initDbResult, tableExists, leadsTable, clock, get,
                   emailCalls, channel>>

\* the handler up to its first await: validation, then either the INSERT is
\* sent to the pool or the in-memory branch answers
PostLeadsFrom(r, bodies) ==
    /\ post[r].pc = "idle"
    /\ r > 1 => post[r - 1].pc # "idle"
    /\ \E body \in bodies :
         LET check == Validate(body)
         IN  IF ~check.ok
             THEN /\ post' = [post EXCEPT ![r] =
                        [@ EXCEPT !.pc = "done", !.body = body,
                                  !.status = 400, !.message = check.message]]
                  /\ UNCHANGED nextUuid
             ELSE IF pool
             THEN /\ post' = [post EXCEPT ![r] =
                        [@ EXCEPT !.pc = "querying", !.body = body,
                                  !.params = InsertParams(nextUuid, body, check.phone)]]
                  /\ nextUuid' = nextUuid + 1
             ELSE /\ post' = [post EXCEPT ![r] =
                        [@ EXCEPT !.pc = "done", !.body = body,
                                  !.status = 201, !.message = MsgThanks,
                                  !.lead = FallbackLead(nextUuid, body, check.phone, clock)]]
                  /\ nextUuid' = nextUuid + 1
    /\ UNCHANGED <<pool, initDbState, initDbResult, tableExists, leadsTable, clock, get,
                   emailCalls, channel>>

PostLeads(r) == PostLeadsFrom(r, Bodies)

\* variant: the INSERT first deletes the rows that carry the same email
DbInsertRow_replacesSameEmail(r) ==
    /\ post[r].pc = "querying"
    /\ tableExists
    /\ ~UniqueViolation(leadsTable, post[r].params)
    /\ ~PrimaryKeyViolation(leadsTable, post[r].params)
    /\ LET row == RowOfParams(post[r].params, clock)
       IN  /\ leadsTable' =
                 {old \in leadsTable : old.email # row.email} \cup {row}
           /\ post' = [post EXCEPT ![r] =
                 [@ EXCEPT !.pc = "queried", !.result = "row", !.row = row]]
    /\ UNCHANGED <<pool, initDbState, initDbResult, tableExists, clock, nextUuid, get,
                   emailCalls, channel>>

\* the database runs INSERT ... ON CONFLICT (email, phone) DO NOTHING
\* RETURNING ...: one row is stored and returned
DbInsertRow(r) ==
    /\ post[r].pc = "querying"
    /\ tableExists
    /\ ~UniqueViolation(leadsTable, post[r].params)
    /\ ~PrimaryKeyViolation(leadsTable, post[r].params)
    /\ LET row == RowOfParams(post[r].params, clock)
       IN  /\ leadsTable' = leadsTable \cup {row}
           /\ post' = [post EXCEPT ![r] =
                 [@ EXCEPT !.pc = "queried", !.result = "row", !.row = row]]
    /\ UNCHANGED <<pool, initDbState, initDbResult, tableExists, clock, nextUuid, get,
                   emailCalls, channel>>

\* variant: ON CONFLICT (email, phone) DO UPDATE, the stored lead takes the
\* submitted name, address and course and is returned
DbInsertNothing_upsert(r) ==
    /\ post[r].pc = "querying"
    /\ tableExists
    /\ UniqueViolation(leadsTable, post[r].params)
    /\ LET old == CHOOSE row \in leadsTable :
                      row.email = post[r].params.email /\ row.phone = post[r].params.phone
           new == [old EXCEPT !.name = post[r].params.name,
                              !.address = post[r].params.address,
                              !.course = post[r].params.course]
       IN  /\ leadsTable' = (leadsTable \ {old}) \cup {new}
           /\ post' = [post EXCEPT ![r] =
                 [@ EXCEPT !.pc = "queried", !.result = "row", !.row = new]]
    /\ UNCHANGED <<pool, initDbState, initDbResult, tableExists, clock, nextUuid, get,
                   emailCalls, channel>>

\* the row collides on (email, phone): DO NOTHING, rowCount is 0
DbInsertNothing(r) ==
    /\ post[r].pc = "querying"
    /\ tableExists
    /\ UniqueViolation(leadsTable, post[r].params)
    /\ post' = [post EXCEPT ![r] = [@ EXCEPT !.pc = "queried", !.result = "empty"]]
    /\ UNCHANGED <<pool, initDbState, initDbResult, tableExists, leadsTable, clock, nextUuid, get,
                   emailCalls, channel>>

\* pool.query rejects: the table is missing, the id collides, or the
\* connection fails
DbInsertError(r) ==
    /\ post[r].pc = "querying"
    /\ post' = [post EXCEPT ![r] = [@ EXCEPT !.pc = "queried", !.result = "error"]]
    /\ UNCHANGED <<pool, initDbState, initDbResult, tableExists, leadsTable, clock, nextUuid, get,
                   emailCalls, channel>>

\* variant: result.rowCount is not looked at, an empty result is answered 201
PostRespond_noRowCountCheck(r) ==
    /\ post[r].pc = "queried"
    /\ post' = [post EXCEPT ![r] =
          IF post[r].result = "error"
          THEN [@ EXCEPT !.pc = "done", !.status = 500, !.message = MsgInsertError]
          ELSE [@ EXCEPT !.pc = "done", !.status = 201, !.message = MsgThanks,
                         !.lead = LeadOfRow(post[r].row)]]
    /\ UNCHANGED <<pool, initDbState, initDbResult, tableExists, leadsTable, clock, nextUuid, get,
                   emailCalls, channel>>

\* variant: the handler awaits sendLeadEmail(lead) inside the try block before
\* it answers
PostRespond_awaitsEmail(r) ==
    /\ post[r].pc = "queried"
    /\ post[r].result = "row" => channel # "hangs"
    /\ post' = [post EXCEPT ![r] =
          IF post[r].result = "error" \/ (post[r].result = "row" /\ channel = "fails")
          THEN [@ EXCEPT !.pc = "done", !.status = 500, !.message = MsgInsertError]
          ELSE IF post[r].result = "empty"
          THEN [@ EXCEPT !.pc = "done", !.status = 409, !.message = MsgDuplicate]
          ELSE [@ EXCEPT !.pc = "done", !.status = 201, !.message = MsgThanks,
                         !.lead = LeadOfRow(post[r].row)]]
    /\ emailCalls' = IF post[r].result = "row"
                     THEN Append(emailCalls, LeadOfRow(post[r].row))
                     ELSE emailCalls
    /\ UNCHANGED <<pool, initDbState, initDbResult, tableExists, leadsTable, clock, nextUuid, get,
                   channel>>

\* variant: no try/catch around the query, the rejection leaves the request
\* unanswered
PostRespond_noCatch(r) ==
    /\ post[r].pc = "queried"
    /\ post' = [post EXCEPT ![r] =
          IF post[r].result = "error"
          THEN [@ EXCEPT !.pc = "unanswered"]
          ELSE IF post[r].result = "empty"
          THEN [@ EXCEPT !.pc = "done", !.status = 409, !.message = MsgDuplicate]
          ELSE [@ EXCEPT !.pc = "done", !.status = 201, !.message = MsgThanks,
                         !.lead = LeadOfRow(post[r].row)]]
    /\ UNCHANGED <<pool, initDbState, initDbResult, tableExists, leadsTable, clock, nextUuid, get,
                   emailCalls, channel>>

\* the handler after the await: 409, 201 with the lead, or the catch's 500
PostRespond(r) ==
    /\ post[r].pc = "queried"
    /\ post' = [post EXCEPT ![r] =
          IF post[r].result = "error"
          THEN [@ EXCEPT !.pc = "done", !.status = 500, !.message = MsgInsertError]
          ELSE IF post[r].result = "empty"
          THEN [@ EXCEPT !.pc = "done", !.status = 409, !.message = MsgDuplicate]
          ELSE [@ EXCEPT !.pc = "done", !.status = 201, !.message = MsgThanks,
                         !.lead = LeadOfRow(post[r].row)]]
    /\ UNCHANGED <<pool, initDbState, initDbResult, tableExists, leadsTable, clock, nextUuid, get,
                   emailCalls, channel>>

(***************************************************************************)
(* GET /leads.                                                             *)
(***************************************************************************)
\* backed mode: the SELECT is sent to the pool
GetLeads(g) ==
    /\ get[g].pc = "idle"
    /\ g > 1 => get[g - 1].pc # "idle"
    /\ pool
    /\ get' = [get EXCEPT ![g] = [@ EXCEPT !.pc = "querying", !.known = Answered201]]
    /\ UNCHANGED <<pool, initDbState, initDbResult, tableExists, leadsTable, clock, nextUuid, post,
                   emailCalls, channel>>

\* in-memory mode: res.json(leads) reads the identifier leads, which the
\* module never declares, and throws a ReferenceError inside the async
\* handler; the router either forwards the rejection to its error handler,
\* which answers 500, or leaves it to the unhandledRejection hook, and the
\* request is never answered
GetLeadsFallback(g) ==
    /\ get[g].pc = "idle"
    /\ g > 1 => get[g - 1].pc # "idle"
    /\ ~pool
    /\ \/ get' = [get EXCEPT ![g] =
             [@ EXCEPT !.pc = "done", !.known = Answered201, !.result = "threw",
                       !.status = 500]]
       \/ get' = [get EXCEPT ![g] =
             [@ EXCEPT !.pc = "unanswered", !.known = Answered201, !.result = "threw"]]
    /\ UNCHANGED <<pool, initDbState, initDbResult, tableExists, leadsTable, clock, nextUuid, post,
                   emailCalls, channel>>

DbSelectRows(g) ==
    /\ get[g].pc = "querying"
    /\ tableExists
    /\ \E rows \in SelectOrderings(leadsTable) :
         get' = [get EXCEPT ![g] = [@ EXCEPT !.pc = "queried", !.result = "rows",
                                              !.rows = rows]]
    /\ UNCHANGED <<pool, initDbState, initDbResult, tableExists, leadsTable, clock, nextUuid, post,
                   emailCalls, channel>>

DbSelectError(g) ==
    /\ get[g].pc = "querying"
    /\ get' = [get EXCEPT ![g] = [@ EXCEPT !.pc = "queried", !.result = "error"]]
    /\ UNCHANGED <<pool, initDbState, initDbResult, tableExists, leadsTable, clock, nextUuid, post,
                   emailCalls, channel>>

\* the handler after the await: the rows mapped to leads, or the catch's 500
GetRespond(g) ==
    /\ get[g].pc = "queried"
    /\ get' = [get EXCEPT ![g] =
          IF get[g].result = "error"
          THEN [@ EXCEPT !.pc = "done", !.status = 500, !.message = MsgFetchError]
          ELSE [@ EXCEPT !.pc = "done", !.status = 200,
                         !.out = [i \in 1..Len(get[g].rows) |-> LeadOfRow(get[g].rows[i])]]]
    /\ UNCHANGED <<pool, initDbState, initDbResult, tableExists, leadsTable, clock, nextUuid, post,
                   emailCalls, channel>>

Next ==
    \/ DbCreateTable
    \/ DbCreateTableError
    \/ InitDbResolve
    \/ InitDbReject
    \/ Tick
    \/ \E r \in PostIds : PostLeads(r)
    \/ \E r \in PostIds : DbInsertRow(r)
    \/ \E r \in PostIds : DbInsertNothing(r)
    \/ \E r \in PostIds : DbInsertError(r)
    \/ \E r \in PostIds : PostRespond(r)
    \/ \E g \in GetIds : GetLeads(g)
    \/ \E g \in GetIds : GetLeadsFallback(g)
    \/ \E g \in GetIds : DbSelectRows(g)
    \/ \E g \in GetIds : DbSelectError(g)
    \/ \E g \in GetIds : GetRespond(g)

Spec == Init /\ [][Next]_vars

(***************************************************************************)
(* The phone check applied to a family of phone inputs: one POST /leads    *)
(* with a valid name and email and a phone drawn from the family.          *)
(***************************************************************************)
DigitSeq == <<"0", "1", "2", "3", "4", "5", "6", "7", "8", "9">>

DigitAt(n) == DigitSeq[(n % 10) + 1]

\* ten times the digit d
AllSameRun(d) == [i \in 1..10 |-> DigitAt(d)]

\* ten consecutive digits upwards from k, wrapping from 9 to 0
AscendingRun(k) == [i \in 1..10 |-> DigitAt(k + i - 1)]

\* ten consecutive digits downwards from k, wrapping from 0 to 9
DescendingRun(k) == [i \in 1..10 |-> DigitAt(k + 11 - i)]

\* nine times the digit d, then the digit e
AlmostSameRun(d, e) == [i \in 1..10 |-> IF i = 10 THEN DigitAt(e) ELSE DigitAt(d)]

TenDigitStrings ==
    {AllSameRun(d) : d \in 0..9}
    \cup {AscendingRun(k) : k \in 0..9}
    \cup {DescendingRun(k) : k \in 0..9}
    \cup {AlmostSameRun(d, e) : d \in 0..9, e \in 0..9}
    \cup {Phone1, Phone2}

\* nothing, the country code, the country code as written by hand, one more
\* digit, another two digits
PhonePrefixes ==
    { <<>>, <<"9", "1">>, <<"+", "9", "1", " ">>, <<"0">>, <<"9", "2">> }

\* the ten digits as they are, or written in two groups
PhoneInputs ==
    {prefix \o digits : prefix \in PhonePrefixes, digits \in TenDigitStrings}
    \cup {prefix \o SubSeq(digits, 1, 5) \o <<"-">> \o SubSeq(digits, 6, 10) :
              prefix \in PhonePrefixes, digits \in TenDigitStrings}

PhoneBodies == {[name |-> NameA, email |-> EmailAX, phone |-> phone] : phone \in PhoneInputs}

PhoneNext ==
    \/ DbCreateTable
    \/ DbCreateTableError
    \/ InitDbResolve
    \/ InitDbReject
    \/ Tick
    \/ PostLeadsFrom(1, PhoneBodies)
    \/ DbInsertRow(1)
    \/ DbInsertError(1)
    \/ PostRespond(1)

PhoneSpec == Init /\ [][PhoneNext]_vars

(***************************************************************************)
(* Vocabulary of the properties.                                           *)
(***************************************************************************)
\* the deduplication key of a submitted body: the trimmed, lowercased email
\* and the digits of the phone
KeyOfBody(body) == <<ToLowerCase(Trim(body["email"])), StripNonDigits(body["phone"])>>

KeyOfRow(row) == <<row.email, row.phone>>

\* a body fails validation: a required field is missing or empty, the email
\* has not the local@domain.tld shape, its domain is on the denylist, or the
\* phone check rejects the phone
FailsValidation(body) ==
    \/ "name" \notin DOMAIN body \/ "email" \notin DOMAIN body \/ "phone" \notin DOMAIN body
    \/ body["name"] = <<>> \/ body["email"] = <<>> \/ body["phone"] = <<>>
    \/ ~EmailShape(body["email"])
    \/ isDisposableEmail(body["email"])
    \/ ~validatePhoneRaw(body["phone"]).ok

\* both, tabulated over the submitted bodies
FailingBodies == {body \in Bodies : FailsValidation(body)}

KeyOf == [body \in Bodies \ FailingBodies |-> KeyOfBody(body)]

Started(r) == post[r].pc # "idle"

\* a started request with a valid body, in backed mode
ValidBacked(r) == Started(r) /\ pool /\ post[r].body \notin FailingBodies

SameKey(r, q) ==
    /\ Started(r) /\ post[r].body \notin FailingBodies
    /\ Started(q) /\ post[q].body \notin FailingBodies
    /\ KeyOf[post[r].body] = KeyOf[post[q].body]

\* the number of times sendLeadEmail was called with the lead of this id
EmailCallsFor(id) == Cardinality({i \in 1..Len(emailCalls) : emailCalls[i].id = id})

(***************************************************************************)
(* C1: in backed mode no two stored leads share the (email, phone) pair,   *)
(* the email being the trimmed, lowercased submitted email and the phone   *)
(* the ten digits left after stripping the non-digits.                     *)
(***************************************************************************)
C1_UniquePair ==
    /\ \A a, b \in leadsTable : KeyOfRow(a) = KeyOfRow(b) => a = b
    /\ \A r \in PostIds :
          post[r].result = "row" =>
              /\ post[r].row \in leadsTable
              /\ KeyOfRow(post[r].row) = KeyOf[post[r].body]
              /\ Len(post[r].row.phone) = 10
    /\ \A r, q \in PostIds :
          (r # q /\ post[r].result = "row" /\ post[q].result = "row") => ~SameKey(r, q)

\* a submission with other fields but the same pair was refused while the
\* pair is stored
C1_Witness ==
    \E r, q \in PostIds :
        /\ r # q /\ SameKey(r, q) /\ post[r].body # post[q].body
        /\ post[r].result = "row" /\ post[q].result = "empty"

(***************************************************************************)
(* C2: of the valid backed requests that share a pair and whose INSERT     *)
(* ended without a store error, exactly one stored a row and is answered   *)
(* 201; each other one is answered 409, in every interleaving.             *)
(***************************************************************************)
Settled(r) == ValidBacked(r) /\ post[r].pc \in {"queried", "done"} /\ post[r].result # "error"

C2_ExactlyOneWins ==
    \A r \in PostIds :
        Settled(r) =>
            LET group == {q \in PostIds : Settled(q) /\ SameKey(r, q)}
                winners == {q \in group : post[q].result = "row"}
            IN  /\ Cardinality(winners) = 1
                /\ \A q \in group :
                      post[q].pc = "done" =>
                          /\ q \in winners => post[q].status = 201
                          /\ q \notin winners => post[q].status = 409
                /\ Cardinality({row \in leadsTable :
                                   KeyOfRow(row) = KeyOf[post[r].body]}) = 1

\* two same-pair requests were in flight together (both INSERTs issued before
\* either was answered) and both are now answered
C2_Witness ==
    \E r, q \in PostIds :
        /\ r # q /\ SameKey(r, q)
        /\ post[r].pc = "done" /\ post[r].status = 201
        /\ post[q].pc = "done" /\ post[q].status = 409
        /\ post[q].params.id < post[r].params.id

(***************************************************************************)
(* C3: a valid backed request whose pair is that of a stored lead is       *)
(* answered 409, whatever its other fields; its INSERT leaves the table    *)
(* as it is and no notification is sent.                                   *)
(***************************************************************************)
C3_Answered409 ==
    \A r \in PostIds :
        (/\ ValidBacked(r) /\ post[r].pc = "done" /\ post[r].result # "error"
         /\ \E row \in leadsTable :
               KeyOfRow(row) = KeyOf[post[r].body] /\ row.id # post[r].params.id)
        => /\ post[r].status = 409
           /\ post[r].lead = NoLead
           /\ EmailCallsFor(post[r].params.id) = 0

C3_TableUntouched ==
    \A r \in PostIds :
        (/\ ValidBacked(r) /\ post[r].pc = "querying"
         /\ \E row \in leadsTable : KeyOfRow(row) = KeyOf[post[r].body]
         /\ post'[r].pc = "queried")
        => /\ leadsTable' = leadsTable
           /\ emailCalls' = emailCalls
           /\ post'[r].result \in {"empty", "error"}

\* C3: a duplicate submission is answered 409 and its INSERT changes neither
\* the table nor the notifications
C3_DuplicateRefused == []C3_Answered409 /\ [][C3_TableUntouched]_vars

\* the refused request differs from the stored lead in name, course and address
C3_Witness ==
    \E r \in PostIds : \E row \in leadsTable :
        /\ post[r].pc = "done" /\ post[r].status = 409
        /\ KeyOfRow(row) = KeyOf[post[r].body]
        /\ row.name # Trim(post[r].body["name"])
        /\ row.course # OrEmpty(post[r].body, "course")
        /\ row.address # OrEmpty(post[r].body, "address")

\* the refused request spells the stored email with a capital letter outside
\* ASCII
C3_WitnessAccented ==
    \E r \in PostIds : \E row \in leadsTable :
        /\ post[r].pc = "done" /\ post[r].status = 409
        /\ post[r].body["email"] = EmailEAcuteUpper
        /\ row.email = EmailEAcute

(***************************************************************************)
(* C4: a valid backed request whose pair no other request shares is        *)
(* answered 201 and adds exactly one row, also when its email alone or its *)
(* phone alone is that of a stored lead (absent a store error).            *)
(***************************************************************************)
C4_Answered201 ==
    \A r \in PostIds :
        (/\ ValidBacked(r) /\ post[r].pc = "done" /\ post[r].result # "error"
         /\ \A q \in PostIds : (q # r /\ ValidBacked(q)) => ~SameKey(r, q))
        => /\ post[r].status = 201
           /\ Cardinality({row \in leadsTable : row.id = post[r].lead.id}) = 1
           /\ \E row \in leadsTable :
                 row.id = post[r].lead.id /\ KeyOfRow(row) = KeyOf[post[r].body]

C4_OneRowAdded ==
    \A r \in PostIds :
        (/\ ValidBacked(r) /\ post[r].pc = "querying" /\ post'[r].pc = "queried"
         /\ post'[r].result # "error"
         /\ \A row \in leadsTable : KeyOfRow(row) # KeyOf[post[r].body])
        => /\ post'[r].result = "row"
           /\ post'[r].row \notin leadsTable
           /\ leadsTable' = leadsTable \cup {post'[r].row}

\* C4: a submission with a new pair is answered 201 and its INSERT adds
\* exactly one row
C4_DistinctPairAccepted == []C4_Answered201 /\ [][C4_OneRowAdded]_vars

\* two leads are accepted that share the email and differ in the phone
C4_Witness ==
    \E r, q \in PostIds :
        /\ r # q
        /\ post[r].status = 201 /\ post[q].status = 201 /\ pool
        /\ post[r].lead.email = post[q].lead.email
        /\ post[r].lead.phone # post[q].lead.phone

\* two leads are accepted that share the phone and differ in the email
C4_WitnessPhone ==
    \E r, q \in PostIds :
        /\ r # q
        /\ post[r].status = 201 /\ post[q].status = 201 /\ pool
        /\ post[r].lead.phone = post[q].lead.phone
        /\ post[r].lead.email # post[q].lead.email

(***************************************************************************)
(* C5: a lead answered 201 is in the sequence every later GET /leads       *)
(* returns, with the same id, email, phone and createdAtUTC, in backed     *)
(* mode and in in-memory mode.  A GET that met a store error is left out.  *)
(***************************************************************************)
ListsLead(out, lead) ==
    \E i \in 1..Len(out) :
        /\ out[i].id = lead.id
        /\ out[i].email = lead.email
        /\ out[i].phone = lead.phone
        /\ out[i].createdAtUTC = lead.createdAtUTC

C5_RoundTrip ==
    \A g \in GetIds :
        (get[g].pc \in {"done", "unanswered"} /\ get[g].result # "error") =>
            \A lead \in get[g].known :
                get[g].status = 200 /\ ListsLead(get[g].out, lead)

\* the same statement for backed mode alone
C5_RoundTripBacked ==
    \A g \in GetIds :
        (pool /\ get[g].pc = "done" /\ get[g].result # "error") =>
            \A lead \in get[g].known :
                get[g].status = 200 /\ ListsLead(get[g].out, lead)

C5_WitnessBacked ==
    \E g \in GetIds :
        pool /\ get[g].pc = "done" /\ get[g].status = 200 /\ Cardinality(get[g].known) = 2

(***************************************************************************)
(* C6: for every request answered 201, sendLeadEmail is called exactly     *)
(* once with its lead.                                                     *)
(***************************************************************************)
C6_NotifiedOnce ==
    \A r \in PostIds :
        (post[r].pc = "done" /\ post[r].status = 201) =>
            EmailCallsFor(post[r].lead.id) = 1

(***************************************************************************)
(* C7: a request whose INSERT stored a row is answered 201 with the stored *)
(* lead, the row stays in the table, and the answer is ready to be sent in *)
(* every condition of the notification channel.                            *)
(***************************************************************************)
C7_ResponseIgnoresNotifier ==
    \A r \in PostIds :
        /\ (post[r].pc = "queried" /\ post[r].result = "row") =>
               /\ ENABLED PostRespond(r)
               /\ post[r].row \in leadsTable
        /\ (post[r].pc = "done" /\ post[r].result = "row") =>
               /\ post[r].status = 201
               /\ post[r].message = MsgThanks
               /\ post[r].lead = LeadOfRow(post[r].row)
               /\ post[r].row \in leadsTable

\* answered 201 while the channel never completes a send
C7_Witness ==
    \E r \in PostIds :
        /\ post[r].pc = "done" /\ post[r].result = "row" /\ post[r].status = 201
        /\ channel = "hangs"

\* answered 201 while the channel fails every send
C7_WitnessFails ==
    \E r \in PostIds :
        /\ post[r].pc = "done" /\ post[r].result = "row" /\ post[r].status = 201
        /\ channel = "fails"

(***************************************************************************)
(* C8: a request that fails validation is answered 400 at once, never      *)
(* reaches the store, leaves the table as it is and sends no notification. *)
(***************************************************************************)
C8_Answered400 ==
    \A r \in PostIds :
        (Started(r) /\ post[r].body \in FailingBodies) =>
            /\ post[r].pc = "done"
            /\ post[r].status = 400
            /\ post[r].params = NoParams
            /\ post[r].result = "none"
            /\ post[r].lead = NoLead

C8_NoEffect ==
    \A r \in PostIds :
        (post[r].pc = "idle" /\ Started(r)' /\ post'[r].body \in FailingBodies) =>
            /\ leadsTable' = leadsTable
            /\ emailCalls' = emailCalls
            /\ nextUuid' = nextUuid

\* C8: an invalid submission is answered 400 and has no effect on the table,
\* the notifications or the id generator
C8_InvalidRejected == []C8_Answered400 /\ [][C8_NoEffect]_vars

\* a disposable address was refused while a lead is stored
C8_Witness ==
    \E r \in PostIds :
        /\ post[r].pc = "done" /\ post[r].status = 400
        /\ post[r].message = MsgDisposable
        /\ leadsTable # {}

(***************************************************************************)
(* C9: every lead stored or returned in a 201 response has a non-empty     *)
(* name without leading or trailing whitespace, an email equal to its      *)
(* lowercased and trimmed form, and a phone of exactly ten digits.         *)
(***************************************************************************)
Normalized(name, email, phone) ==
    /\ name # <<>>
    /\ name[1] \notin WhitespaceChars
    /\ name[Len(name)] \notin WhitespaceChars
    /\ email = ToLowerCase(Trim(email))
    /\ Len(phone) = 10
    /\ \A i \in 1..Len(phone) : phone[i] \in DigitChars

C9_LeadsNormalized ==
    /\ \A row \in leadsTable : Normalized(row.name, row.email, row.phone)
    /\ \A r \in PostIds :
          post[r].status = 201 =>
              Normalized(post[r].lead.name, post[r].lead.email, post[r].lead.phone)

(***************************************************************************)
(* C10: when the INSERT fails for a reason other than the uniqueness       *)
(* conflict, the request is answered 500 with the generic message, no row  *)
(* is added, no notification is sent, and the handlers stay ready for the  *)
(* other requests.                                                         *)
(***************************************************************************)
C10_Answered500 ==
    \A r \in PostIds :
        post[r].result = "error" =>
            /\ post[r].pc \in {"queried", "done"}
            /\ post[r].pc = "queried" => ENABLED PostRespond(r)
            /\ post[r].pc = "done" =>
                  /\ post[r].status = 500
                  /\ post[r].message = MsgInsertError
                  /\ post[r].lead = NoLead
            /\ \A row \in leadsTable : row.id # post[r].params.id
            /\ EmailCallsFor(post[r].params.id) = 0
            /\ \A q \in PostIds :
                  /\ (post[q].pc = "idle" /\ (q = 1 \/ Started(q - 1))) => ENABLED PostLeads(q)
                  /\ post[q].pc = "queried" => ENABLED PostRespond(q)

C10_NoRowAdded ==
    \A r \in PostIds :
        (post[r].pc = "querying" /\ post'[r].pc = "queried" /\ post'[r].result = "error")
        => leadsTable' = leadsTable /\ emailCalls' = emailCalls

\* C10: a store error is answered 500, adds no row and sends no notification
C10_StoreErrorIs500 == []C10_Answered500 /\ [][C10_NoRowAdded]_vars

\* a request was answered 500 and a later one was served
C10_Witness ==
    \E r, q \in PostIds :
        /\ post[r].pc = "done" /\ post[r].status = 500 /\ tableExists
        /\ post[q].pc = "done" /\ post[q].status = 201
        /\ post[r].params.id < post[q].params.id

(***************************************************************************)
(* C11: every POST /leads and GET /leads request gets its one response:    *)
(* a request that was received is either still being served (its query is  *)
(* pending or its handler is about to answer) or is answered, a POST with  *)
(* 201, 400, 409 or 500 and a GET with 200 or 500.                         *)
(***************************************************************************)
C11_Answered ==
    /\ \A r \in PostIds :
          Started(r) =>
              \/ post[r].pc \in {"querying", "queried"}
              \/ post[r].pc = "done" /\ post[r].status \in {201, 400, 409, 500}
    /\ \A g \in GetIds :
          get[g].pc # "idle" =>
              \/ get[g].pc \in {"querying", "queried"}
              \/ get[g].pc = "done" /\ get[g].status \in {200, 500}

\* the same statement for backed mode alone, with the pending steps enabled
C11_AnsweredBacked ==
    pool =>
        /\ \A r \in PostIds :
              Started(r) =>
                  \/ post[r].pc = "querying" /\ ENABLED DbInsertError(r)
                  \/ post[r].pc = "queried" /\ ENABLED PostRespond(r)
                  \/ post[r].pc = "done" /\ post[r].status \in {201, 400, 409, 500}
        /\ \A g \in GetIds :
              get[g].pc # "idle" =>
                  \/ get[g].pc = "querying" /\ ENABLED DbSelectError(g)
                  \/ get[g].pc = "queried" /\ ENABLED GetRespond(g)
                  \/ get[g].pc = "done" /\ get[g].status \in {200, 500}

(***************************************************************************)
(* C12: the sequence a GET /leads returns holds stored leads, each once,   *)
(* newest first: a lead is never older than the leads after it.            *)
(***************************************************************************)
\* the rendered instant a is not older than the rendered instant b
IsoNotOlder(a, b) == a[1] > b[1] \/ (a[1] = b[1] /\ a[2] >= b[2])

C12_NewestFirst ==
    \A g \in GetIds :
        (get[g].pc = "done" /\ get[g].status = 200) =>
            LET out == get[g].out
            IN  /\ \A i, j \in 1..Len(out) :
                      i < j => IsoNotOlder(out[i].createdAtUTC, out[j].createdAtUTC)
                /\ \A i, j \in 1..Len(out) : i # j => out[i].id # out[j].id
                /\ \A i \in 1..Len(out) : \E row \in leadsTable : LeadOfRow(row) = out[i]

\* a returned sequence of two leads created at different instants
C12_Witness ==
    \E g \in GetIds :
        /\ get[g].pc = "done" /\ get[g].status = 200
        /\ Len(get[g].out) = 2
        /\ get[g].out[1].createdAtUTC # get[g].out[2].createdAtUTC

(***************************************************************************)
(* C13: a stored lead stays stored with all its fields: every step keeps   *)
(* every row of the table as it is.                                        *)
(***************************************************************************)
C13_NeverMutated == [][leadsTable \subseteq leadsTable']_vars

\* a lead is stored, a duplicate of it was refused and a listing was answered
C13_Witness ==
    /\ leadsTable # {}
    /\ \E r \in PostIds : post[r].pc = "done" /\ post[r].status = 409
    /\ \E g \in GetIds : get[g].pc = "done" /\ get[g].status = 200

\* two leads with the same email are stored
C13_WitnessSameEmail ==
    \E a, b \in leadsTable : a # b /\ a.email = b.email

(***************************************************************************)
(* C14: in in-memory mode every request that passes validation is answered *)
(* 201, also for a pair submitted before, and none is answered 409.        *)
(***************************************************************************)
C14_NoDedup ==
    ~pool =>
        \A r \in PostIds :
            Started(r) =>
                /\ post[r].pc = "done"
                /\ post[r].status # 409
                /\ post[r].body \notin FailingBodies =>
                      /\ post[r].status = 201
                      /\ <<post[r].lead.email, post[r].lead.phone>> = KeyOf[post[r].body]

\* the same pair was accepted twice
C14_Witness ==
    \E r, q \in PostIds :
        /\ ~pool /\ r # q /\ SameKey(r, q)
        /\ post[r].status = 201 /\ post[q].status = 201
        /\ post[r].lead.id # post[q].lead.id

(***************************************************************************)
(* C15: a phone whose digits are twelve and start with 91 is refused with  *)
(* the country-code message, whatever the ten digits after 91 are; the     *)
(* request is answered 400 and no row is created.                          *)
(***************************************************************************)
DigitsOf == [body \in PhoneBodies |-> StripNonDigits(body["phone"])]

CountryCodeBodies ==
    {body \in PhoneBodies :
        Len(DigitsOf[body]) = 12 /\ DigitsOf[body][1] = "9" /\ DigitsOf[body][2] = "1"}

C15_Answered400 ==
    (Started(1) /\ post[1].body \in CountryCodeBodies) =>
        /\ post[1].pc = "done"
        /\ post[1].status = 400
        /\ post[1].message = MsgCountryCode
        /\ post[1].params = NoParams
        /\ leadsTable = {}

C15_NoRow ==
    (post[1].pc = "idle" /\ Started(1)' /\ post'[1].body \in CountryCodeBodies) =>
        leadsTable' = leadsTable /\ nextUuid' = nextUuid

\* C15: a phone of 91 and ten more digits is answered 400 with the
\* country-code message and stores nothing
C15_CountryCodeRefused == []C15_Answered400 /\ [][C15_NoRow]_vars

\* refused although the ten digits after +91 are all the same
C15_Witness ==
    /\ Started(1)
    /\ post[1].body["phone"] = <<"+", "9", "1", " ">> \o AllSameRun(5)
    /\ post[1].status = 400
    /\ pool /\ tableExists

\* refused with ten plausible digits after 91
C15_WitnessPlausible ==
    /\ Started(1)
    /\ post[1].body["phone"] = <<"9", "1">> \o Phone1
    /\ post[1].status = 400

(***************************************************************************)
(* C16: a phone of exactly ten digits is refused as a placeholder when the *)
(* ten digits are identical or are one of the fixed runs 0123456789,       *)
(* 1234567890 and 0987654321; every other one is accepted and its ten      *)
(* digits are the normalized phone.                                        *)
(***************************************************************************)
FixedRuns == {AscendingRun(0), AscendingRun(1), DescendingRun(0)}

TenDigitBodies == {body \in PhoneBodies : Len(DigitsOf[body]) = 10}

ImplausibleBodies ==
    {body \in TenDigitBodies :
        \/ \A i \in 1..10 : DigitsOf[body][i] = DigitsOf[body][1]
        \/ DigitsOf[body] \in FixedRuns}

C16_TenDigits ==
    (Started(1) /\ post[1].body \in TenDigitBodies) =>
        IF post[1].body \in ImplausibleBodies
        THEN /\ post[1].pc = "done"
             /\ post[1].status = 400
             /\ post[1].message = MsgPlaceholder
        ELSE /\ post[1].status # 400
             /\ pool => post[1].params.phone = DigitsOf[post[1].body]
             /\ ~pool => post[1].status = 201
             /\ post[1].status = 201 => post[1].lead.phone = DigitsOf[post[1].body]
             /\ post[1].result = "row" => post[1].row.phone = DigitsOf[post[1].body]

\* 9876543210, written in two groups, is stored as 9876543210
C16_Witness ==
    /\ pool
    /\ Started(1)
    /\ post[1].body["phone"] = Phone1Dashed
    /\ post[1].status = 201
    /\ post[1].lead.phone = Phone1
    /\ \E row \in leadsTable : row.phone = Phone1

\* 0987654321 is refused
C16_WitnessRefused ==
    /\ Started(1)
    /\ post[1].body["phone"] = DescendingRun(0)
    /\ post[1].status = 400 /\ post[1].message = MsgPlaceholder

(***************************************************************************)
(* C17: the store mode is fixed before the first request and never         *)
(* changes.  With a connection string every valid POST and every GET goes  *)
(* to the database, also before the table creation has settled and after   *)
(* it failed, and is never served in memory; without one every request is  *)
(* served in memory.                                                       *)
(***************************************************************************)
C17_OnePath ==
    /\ pool =>
          /\ \A r \in PostIds :
                (Started(r) /\ post[r].body \notin FailingBodies) =>
                    /\ post[r].params.id # 0
                    /\ post[r].status = 201 =>
                          post[r].result = "row" /\ post[r].lead = LeadOfRow(post[r].row)
          /\ \A g \in GetIds :
                get[g].pc # "idle" => get[g].result # "threw" /\ get[g].pc # "unanswered"
    /\ ~pool =>
          /\ leadsTable = {}
          /\ \A r \in PostIds :
                (Started(r) /\ post[r].body \notin FailingBodies) =>
                    /\ post[r].params = NoParams
                    /\ post[r].result = "none"
                    /\ post[r].status = 201
          /\ \A g \in GetIds : get[g].pc # "idle" => get[g].result = "threw"

\* as claimed: a request served before the table creation has completed or
\* after the initialisation failed is answered 500
C17_EarlyAnswered500 ==
    (pool /\ initDbState \in {"awaiting", "failed"}) =>
        /\ \A r \in PostIds :
              (post[r].pc = "done" /\ post[r].body \notin FailingBodies) =>
                  post[r].status = 500
        /\ \A g \in GetIds : get[g].pc = "done" => get[g].status = 500

C17_AsClaimed == C17_OnePath /\ C17_EarlyAnswered500

\* as the code has it: such a request is answered 500 as long as the leads
\* table does not exist
C17_MissingTableAnswered500 ==
    (pool /\ ~tableExists) =>
        /\ initDbState \in {"awaiting", "failed"}
        /\ \A r \in PostIds :
              (post[r].pc = "done" /\ post[r].body \notin FailingBodies) =>
                  post[r].status = 500
        /\ \A g \in GetIds : get[g].pc = "done" => get[g].status = 500

\* C17: the mode never changes, each mode has its one path, and in backed
\* mode a request met by a missing table is answered 500
C17_ModeFixed ==
    []C17_OnePath /\ []C17_MissingTableAnswered500 /\ [][pool' = pool]_vars

\* the initialisation failed, the table is missing, a POST and a GET were
\* answered 500
C17_Witness ==
    /\ pool /\ initDbState = "failed" /\ ~tableExists
    /\ \E r \in PostIds :
          post[r].pc = "done" /\ post[r].body \notin FailingBodies /\ post[r].status = 500
    /\ \E g \in GetIds : get[g].pc = "done" /\ get[g].status = 500

\* the database has created the table, initDb() has not resumed yet, and a
\* POST was already answered 201
C17_WitnessBeforeResolve ==
    /\ pool /\ initDbState = "awaiting" /\ initDbResult = "ok"
    /\ \E r \in PostIds : post[r].pc = "done" /\ post[r].status = 201

=============================================================================
